---- MODULE Spec2Model ----
(***************************************************************************)
(* Model of react-native-tiktok-business-sdk, src/index.tsx:               *)
(*   - validateAndNormalizeTikTokAppId, the identifier validator;          *)
(*   - the eight facade operations of TikTokBusiness and the native        *)
(*     module (TikTokBusinessModule) they forward to.                      *)
(*                                                                         *)
(* A JavaScript string is a sequence of characters.  The characters are    *)
(* one-character TLA+ strings, except the full-width comma U+FF0C, which   *)
(* is written "FW".                                                        *)
(***************************************************************************)
EXTENDS Integers, Sequences, FiniteSets, TLC

\* ------------------------------------------------------------------ bounds
\* Longest identifier string, and longest comma-joined form of an array.
MaxLen == 4

\* -------------------------------------------------------------- characters
Digit == {"0", "1"}
Comma == ","
FullwidthComma == "FW"
Whitespace == {" "}
Letter == {"a"}
Alphabet == Digit \cup {Comma, FullwidthComma} \cup Whitespace \cup Letter

\* All strings over a character set, up to a length.
StringsOver(chars, n) == UNION {[1..k -> chars] : k \in 0..n}

\* ------------------------------------------- JavaScript string primitives
\* /\s/.test(s)
HasWhitespace(s) == \E i \in 1..Len(s) : s[i] \in Whitespace

\* s.includes(c), c one character
Includes(s, c) == \E i \in 1..Len(s) : s[i] = c

\* s.startsWith(c), c one character
StartsWith(s, c) == Len(s) >= 1 /\ s[1] = c

\* s.endsWith(c), c one character
EndsWith(s, c) == Len(s) >= 1 /\ s[Len(s)] = c

\* /,,/.test(s)
HasConsecutiveCommas(s) ==
    \E i \in 1..(Len(s) - 1) : s[i] = Comma /\ s[i + 1] = Comma

\* /^\d+$/.test(s)
AllDigits(s) == Len(s) >= 1 /\ \A i \in 1..Len(s) : s[i] \in Digit

\* /^[\d,]+$/.test(s)
DigitsAndCommas(s) ==
    Len(s) >= 1 /\ \A i \in 1..Len(s) : s[i] \in Digit \cup {Comma}

\* A join that writes the separator after every token, the last one included.
RECURSIVE JoinTrailingSeparator(_, _)
JoinTrailingSeparator(toks, sep) ==
    IF toks = <<>> THEN <<>>
    ELSE Head(toks) \o <<sep>> \o JoinTrailingSeparator(Tail(toks), sep)

\* toks.join(sep): the tokens with sep between neighbours.
RECURSIVE Join(_, _)
Join(toks, sep) ==
    IF toks = <<>> THEN <<>>
    ELSE IF Len(toks) = 1 THEN Head(toks)
    ELSE Head(toks) \o <<sep>> \o Join(Tail(toks), sep)

\* ---------------------------------------------------------------- values
\* JavaScript values: undefined, null, a string, an array of strings, a
\* boolean, an object (its set of <<key, value>> entries).
Absent == [type |-> "absent"]
Null == [type |-> "null"]
StringInput(s) == [type |-> "string", str |-> s]
ArrayInput(toks) == [type |-> "array", toks |-> toks]
Bool(b) == [type |-> "boolean", val |-> b]
Object(entries) == [type |-> "object", entries |-> entries]

\* new Error('<kind>: <message>')
Error(kind, message) == [kind |-> kind, message |-> message]

EMPTY == Error("INVALID_TTAPPID_EMPTY", "TikTok App ID cannot be empty")
SPACES ==
    Error("INVALID_TTAPPID_SPACES",
          "TikTok App ID must contain only numbers and commas. Spaces are not allowed.")
FULLWIDTH_COMMA ==
    Error("INVALID_TTAPPID_FULLWIDTH_COMMA",
          "TikTok App ID contains full-width comma. Please use standard comma (,)")
TRAILING_COMMA ==
    Error("INVALID_TTAPPID_TRAILING_COMMA",
          "TikTok App ID cannot have trailing or leading commas")
CONSECUTIVE_COMMAS ==
    Error("INVALID_TTAPPID_CONSECUTIVE_COMMAS",
          "TikTok App ID cannot have consecutive commas")
FORMAT ==
    Error("INVALID_TTAPPID_FORMAT",
          "TikTok App ID must contain only numbers and commas (e.g., '123,456,789')")

ValidationErrors ==
    {EMPTY, SPACES, FULLWIDTH_COMMA, TRAILING_COMMA, CONSECUTIVE_COMMAS, FORMAT}

\* The outcome of a call: a returned value or a thrown error.
Returned(v) == [ok |-> TRUE, value |-> v]
Thrown(e) == [ok |-> FALSE, error |-> e]

\* ------------------------------------------------------------- validator
\* !x: undefined, null, '' and false are falsy; an array or an object never is.
Falsy(x) ==
    \/ x.type \in {"absent", "null"}
    \/ (x.type = "string" /\ x.str = <<>>)
    \/ (x.type = "boolean" /\ ~x.val)

\* a || b
Or(a, b) == IF Falsy(a) THEN b ELSE a

\* The loop without the digit test on the elements.
RECURSIVE ValidateElementsUnchecked(_, _)
ValidateElementsUnchecked(toks, i) ==
    IF i > Len(toks) THEN Returned(Join(toks, Comma))
    ELSE IF toks[i] = <<>> THEN Thrown(EMPTY)
    ELSE ValidateElementsUnchecked(toks, i + 1)

\* The loop with the digit test ahead of the emptiness test.
RECURSIVE ValidateElementsFormatFirst(_, _)
ValidateElementsFormatFirst(toks, i) ==
    IF i > Len(toks) THEN Returned(Join(toks, Comma))
    ELSE IF ~AllDigits(toks[i]) THEN Thrown(FORMAT)
    ELSE IF toks[i] = <<>> THEN Thrown(EMPTY)
    ELSE ValidateElementsFormatFirst(toks, i + 1)

\* The for loop over the array: the first element that fails a check decides.
RECURSIVE ValidateElements(_, _)
ValidateElements(toks, i) ==
    IF i > Len(toks) THEN Returned(Join(toks, Comma))
    ELSE IF toks[i] = <<>> THEN Thrown(EMPTY)
    ELSE IF ~AllDigits(toks[i]) THEN Thrown(FORMAT)
    ELSE ValidateElements(toks, i + 1)

\* The string checks without the test for a leading or trailing comma.
ValidateStringKeepsEdgeCommas(s) ==
    IF HasWhitespace(s) THEN Thrown(SPACES)
    ELSE IF Includes(s, FullwidthComma) THEN Thrown(FULLWIDTH_COMMA)
    ELSE IF HasConsecutiveCommas(s) THEN Thrown(CONSECUTIVE_COMMAS)
    ELSE IF ~DigitsAndCommas(s) THEN Thrown(FORMAT)
    ELSE Returned(s)

\* The string checks with the generic format test ahead of the comma tests.
ValidateStringFormatFirst(s) ==
    IF HasWhitespace(s) THEN Thrown(SPACES)
    ELSE IF Includes(s, FullwidthComma) THEN Thrown(FULLWIDTH_COMMA)
    ELSE IF ~DigitsAndCommas(s) THEN Thrown(FORMAT)
    ELSE IF StartsWith(s, Comma) \/ EndsWith(s, Comma) THEN Thrown(TRAILING_COMMA)
    ELSE IF HasConsecutiveCommas(s) THEN Thrown(CONSECUTIVE_COMMAS)
    ELSE Returned(s)

\* The checks on a non-empty string, in the order of the code.
ValidateString(s) ==
    IF HasWhitespace(s) THEN Thrown(SPACES)
    ELSE IF Includes(s, FullwidthComma) THEN Thrown(FULLWIDTH_COMMA)
    ELSE IF StartsWith(s, Comma) \/ EndsWith(s, Comma) THEN Thrown(TRAILING_COMMA)
    ELSE IF HasConsecutiveCommas(s) THEN Thrown(CONSECUTIVE_COMMAS)
    ELSE IF ~DigitsAndCommas(s) THEN Thrown(FORMAT)
    ELSE Returned(s)

validateAndNormalizeTikTokAppId(ttAppId) ==
    IF Falsy(ttAppId) THEN Thrown(EMPTY)
    ELSE IF ttAppId.type = "array" THEN
        IF Len(ttAppId.toks) = 0 THEN Thrown(EMPTY)
        ELSE ValidateElements(ttAppId.toks, 1)
    ELSE ValidateString(ttAppId.str)

\* ------------------------------------------------------------------ state
VARIABLES
    vIn,      \* validator run: the argument given to the validator
    vOut,     \* validator run: its outcome, or Unset before the call
    vAgain,   \* validator run: the outcome of validating a returned value again
    vJoined,  \* validator run: the outcome for the caller-joined tokens of an array
    linked,   \* whether NativeModules.TikTokBusinessModule exists
    calls,    \* the facade calls made so far, each with its promise
    native    \* the invocations of the native module so far, each with its promise

vars == <<vIn, vOut, vAgain, vJoined, linked, calls, native>>
validatorVars == <<vIn, vOut, vAgain, vJoined>>
facadeVars == <<linked, calls, native>>

\* No outcome yet: the call has not been made.
Unset == [ok |-> FALSE, error |-> [kind |-> "", message |-> "not called"]]

\* ------------------------------------------------- inputs of a validator run
\* sep splits s into its tokens, as s.split(sep) does.
RECURSIVE Split(_, _, _)
Split(s, sep, acc) ==
    IF s = <<>> THEN <<acc>>
    ELSE IF Head(s) = sep THEN <<acc>> \o Split(Tail(s), sep, <<>>)
    ELSE Split(Tail(s), sep, Append(acc, Head(s)))

ElementBreak == "|"

\* Every array of strings whose elements, written one after the other with a
\* break between neighbours, take at most MaxLen characters.
Arrays ==
    {<<>>} \cup
    {Split(s, ElementBreak, <<>>) : s \in StringsOver(Alphabet \cup {ElementBreak}, MaxLen)}

ValidatorInputs ==
    {Absent}
    \cup {StringInput(s) : s \in StringsOver(Alphabet, MaxLen)}
    \cup {ArrayInput(toks) : toks \in Arrays}

InitValidator ==
    /\ vIn \in ValidatorInputs
    /\ vOut = Unset
    /\ vAgain = Unset
    /\ vJoined = Unset
    /\ linked = TRUE
    /\ calls = <<>>
    /\ native = <<>>

\* validateAndNormalizeTikTokAppId(vIn)
Validate ==
    /\ vOut = Unset
    /\ vOut' = validateAndNormalizeTikTokAppId(vIn)
    /\ UNCHANGED <<vIn, vAgain, vJoined, facadeVars>>

\* validateAndNormalizeTikTokAppId(validateAndNormalizeTikTokAppId(vIn))
ValidateAgain ==
    /\ vOut.ok
    /\ vAgain = Unset
    /\ vAgain' = validateAndNormalizeTikTokAppId(StringInput(vOut.value))
    /\ UNCHANGED <<vIn, vOut, vJoined, facadeVars>>

\* validateAndNormalizeTikTokAppId(vIn.join(',')) for an array vIn
ValidateJoined ==
    /\ vIn.type = "array"
    /\ vOut # Unset
    /\ vJoined = Unset
    /\ vJoined' = validateAndNormalizeTikTokAppId(StringInput(Join(vIn.toks, Comma)))
    /\ UNCHANGED <<vIn, vOut, vAgain, facadeVars>>

NextValidator == Validate \/ ValidateAgain \/ ValidateJoined

SpecValidator == InitValidator /\ [][NextValidator]_vars

\* ----------------------------------------------------------------- facade
\* The most facade calls a run makes.
MaxCalls == 2

\* new Error(LINKING_ERROR): a message with no diagnostic code in front.
LINKING_ERROR ==
    Error("", "The package 'react-native-tiktok-business' doesn't seem to be linked.")

\* A promise: pending, resolved with a value or rejected with an error.
Pending == [state |-> "pending", value |-> Absent]
Resolved(v) == [state |-> "resolved", value |-> v]
Rejected(e) == [state |-> "rejected", value |-> e]

\* TikTokBusinessModule.<method>: the native method when the module is linked;
\* otherwise the get trap of the Proxy throws.
TikTokBusinessModule(method) ==
    IF linked THEN Returned(method) ELSE Thrown(LINKING_ERROR)

\* TikTokBusinessModule.<method>(...args): the invocation the body then awaits,
\* or the error thrown on the way to it.
Invoke(method, args) ==
    LET m == TikTokBusinessModule(method) IN
    IF m.ok THEN Returned([method |-> m.value, args |-> args]) ELSE m

\* initializeSdk forwarding the identifier as given, checked or not.
initializeSdkUnvalidated(appId, ttAppId, accessToken, debug) ==
    Invoke("initializeSdk", <<appId, ttAppId, accessToken, Or(debug, Bool(FALSE))>>)

\* initializeSdk validating the identifier and then forwarding the raw one.
initializeSdkForwardsRaw(appId, ttAppId, accessToken, debug) ==
    LET normalizedTtAppId == validateAndNormalizeTikTokAppId(ttAppId) IN
    IF ~normalizedTtAppId.ok THEN normalizedTtAppId
    ELSE Invoke("initializeSdk", <<appId, ttAppId, accessToken, Or(debug, Bool(FALSE))>>)

\* The bodies of the eight operations up to their await: the native invocation
\* they make, or the error thrown before it.
initializeSdk(appId, ttAppId, accessToken, debug) ==
    LET normalizedTtAppId == validateAndNormalizeTikTokAppId(ttAppId) IN
    IF ~normalizedTtAppId.ok THEN normalizedTtAppId
    ELSE Invoke("initializeSdk",
                <<appId, StringInput(normalizedTtAppId.value), accessToken,
                  Or(debug, Bool(FALSE))>>)

identify(externalId, externalUserName, phoneNumber, email) ==
    Invoke("identify", <<externalId, externalUserName, phoneNumber, email>>)

logout == Invoke("logout", <<>>)

flush == Invoke("flush", <<>>)

trackEvent(eventName, eventId, properties) ==
    Invoke("trackEvent", <<eventName, Or(eventId, Null), Or(properties, Null)>>)

trackContentEvent(eventName, properties) ==
    Invoke("trackContentEvent", <<eventName, properties>>)

trackCustomEvent(eventName, properties) ==
    Invoke("trackCustomEvent", <<eventName, properties>>)

trackAdRevenueEvent(adRevenueData, eventId) ==
    Invoke("trackAdRevenueEvent", <<adRevenueData, Or(eventId, Null)>>)

\* A function that is not async lets the error escape to its caller.
ThrowsToCaller(e) == [state |-> "threw", value |-> e]

\* An async function whose body throws returns a rejected promise.
AsyncThrow(e) == Rejected(e)

\* An await that turns a rejection into a resolution with undefined.
ReturnAwaitSwallows(settled) ==
    IF settled.state = "rejected" THEN Resolved(Absent) ELSE settled

\* return await p: the caller's promise settles as p settled.
ReturnAwait(settled) == settled

\* A call guarded by session state: an operation other than initializeSdk is
\* rejected unless an earlier initializeSdk has resolved.
CallRequiresInitialize(op, args, body) ==
    /\ Len(calls) < MaxCalls
    /\ IF /\ op # "initializeSdk"
          /\ ~\E c \in 1..Len(calls) :
                calls[c].op = "initializeSdk" /\ calls[c].promise.state = "resolved"
       THEN /\ calls' = Append(calls, [op |-> op, args |-> args,
                                       promise |-> Rejected(Error("NOT_INITIALIZED",
                                                                  "initializeSdk has not completed")),
                                       native |-> 0])
            /\ UNCHANGED native
       ELSE IF body.ok
       THEN /\ native' = Append(native, [method |-> body.value.method,
                                         args |-> body.value.args,
                                         promise |-> Pending])
            /\ calls' = Append(calls, [op |-> op, args |-> args,
                                       promise |-> Pending,
                                       native |-> Len(native) + 1])
       ELSE /\ calls' = Append(calls, [op |-> op, args |-> args,
                                       promise |-> Rejected(body.error),
                                       native |-> 0])
            /\ UNCHANGED native
    /\ UNCHANGED <<linked, validatorVars>>

\* A call that waits in a queue while an earlier native invocation is unsettled.
CallHeldBack(op, args, body) ==
    /\ Len(calls) < MaxCalls
    /\ IF body.ok /\ \E n \in 1..Len(native) : native[n].promise = Pending
       THEN /\ calls' = Append(calls, [op |-> op, args |-> args,
                                       promise |-> Pending, native |-> 0])
            /\ UNCHANGED native
       ELSE IF body.ok
       THEN /\ native' = Append(native, [method |-> body.value.method,
                                         args |-> body.value.args,
                                         promise |-> Pending])
            /\ calls' = Append(calls, [op |-> op, args |-> args,
                                       promise |-> Pending,
                                       native |-> Len(native) + 1])
       ELSE /\ calls' = Append(calls, [op |-> op, args |-> args,
                                       promise |-> Rejected(body.error),
                                       native |-> 0])
            /\ UNCHANGED native
    /\ UNCHANGED <<linked, validatorVars>>

\* A call of an async operation: its body runs to the await (the native
\* invocation is made) or to a throw (the promise is rejected).
Call(op, args, body) ==
    /\ Len(calls) < MaxCalls
    /\ IF body.ok
       THEN /\ native' = Append(native, [method |-> body.value.method,
                                         args |-> body.value.args,
                                         promise |-> Pending])
            /\ calls' = Append(calls, [op |-> op, args |-> args,
                                       promise |-> Pending,
                                       native |-> Len(native) + 1])
       ELSE /\ calls' = Append(calls, [op |-> op, args |-> args,
                                       promise |-> AsyncThrow(body.error),
                                       native |-> 0])
            /\ UNCHANGED native
    /\ UNCHANGED <<linked, validatorVars>>

\* ------------------------------------------------------ inputs of the facade
AppIds == {StringInput(<<"a", "p", "p">>)}
AccessTokens == {StringInput(<<"t", "o", "k">>)}
TtAppIds ==
    { StringInput(<<"0", ",", "1">>),
      ArrayInput(<< <<"0">>, <<"1">> >>),
      StringInput(<<"1", ",", " ", "0">>),
      ArrayInput(<< <<>> >>) }
DebugFlags == {Absent, Bool(TRUE), Bool(FALSE)}
EventNames == {StringInput(<<"L", "o", "g", "i", "n">>)}
ContentEventNames == {StringInput(<<"P", "U", "R", "C", "H", "A", "S", "E">>)}
CustomEventNames == {StringInput(<<"m", "y">>)}
EventIds == {Absent, StringInput(<<>>), StringInput(<<"e", "1">>)}
Properties == {Absent, Object({})}
AdRevenueDatas == {Object({<<"revenue", "1">>})}

\* What the native module settles its promises with.
Tokens == {StringInput(<<"o", "k">>)}
NativeFailures == {Error("NATIVE_FAILURE", "failure reported by the native module")}

\* --------------------------------------------------------------- operations
Init ==
    /\ linked \in BOOLEAN
    /\ calls = <<>>
    /\ native = <<>>
    /\ vIn = Absent
    /\ vOut = Unset
    /\ vAgain = Unset
    /\ vJoined = Unset

InitializeSdk ==
    \E appId \in AppIds, ttAppId \in TtAppIds,
       accessToken \in AccessTokens, debug \in DebugFlags :
        Call("initializeSdk", <<appId, ttAppId, accessToken, debug>>,
             initializeSdk(appId, ttAppId, accessToken, debug))

Identify ==
    LET externalId == StringInput(<<"u", "1">>)
        externalUserName == StringInput(<<"j", "o">>)
        phoneNumber == StringInput(<<"+", "1">>)
        email == StringInput(<<"j", "@", "x">>)
    IN  Call("identify", <<externalId, externalUserName, phoneNumber, email>>,
             identify(externalId, externalUserName, phoneNumber, email))

Logout == Call("logout", <<>>, logout)

Flush == Call("flush", <<>>, flush)

TrackEvent ==
    \E eventName \in EventNames, eventId \in EventIds, properties \in Properties :
        Call("trackEvent", <<eventName, eventId, properties>>,
             trackEvent(eventName, eventId, properties))

TrackContentEvent ==
    \E eventName \in ContentEventNames, properties \in Properties :
        Call("trackContentEvent", <<eventName, properties>>,
             trackContentEvent(eventName, properties))

TrackCustomEvent ==
    \E eventName \in CustomEventNames, properties \in Properties :
        Call("trackCustomEvent", <<eventName, properties>>,
             trackCustomEvent(eventName, properties))

TrackAdRevenueEvent ==
    \E adRevenueData \in AdRevenueDatas, eventId \in EventIds :
        Call("trackAdRevenueEvent", <<adRevenueData, eventId>>,
             trackAdRevenueEvent(adRevenueData, eventId))

\* The native module resolves the promise of one of its invocations.
NativeResolves ==
    \E n \in 1..Len(native), token \in Tokens :
        /\ native[n].promise = Pending
        /\ native' = [native EXCEPT ![n].promise = Resolved(token)]
        /\ UNCHANGED <<linked, calls, validatorVars>>

\* The native module rejects the promise of one of its invocations.
NativeRejects ==
    \E n \in 1..Len(native), failure \in NativeFailures :
        /\ native[n].promise = Pending
        /\ native' = [native EXCEPT ![n].promise = Rejected(failure)]
        /\ UNCHANGED <<linked, calls, validatorVars>>

\* A continuation that invokes the native method once more when it rejected.
ResumeRetries ==
    \E c \in 1..Len(calls) :
        /\ calls[c].promise = Pending
        /\ calls[c].native > 0
        /\ native[calls[c].native].promise # Pending
        /\ IF native[calls[c].native].promise.state = "rejected"
           THEN /\ native' = Append(native,
                                    [native[calls[c].native] EXCEPT !.promise = Pending])
                /\ calls' = [calls EXCEPT ![c].native = Len(native) + 1]
           ELSE /\ calls' = [calls EXCEPT
                                ![c].promise = native[calls[c].native].promise]
                /\ UNCHANGED native
        /\ UNCHANGED <<linked, validatorVars>>

\* The awaited promise has settled: the operation's body resumes and returns.
Resume ==
    \E c \in 1..Len(calls) :
        /\ calls[c].promise = Pending
        /\ calls[c].native > 0
        /\ native[calls[c].native].promise # Pending
        /\ calls' = [calls EXCEPT
                        ![c].promise = ReturnAwait(native[calls[c].native].promise)]
        /\ UNCHANGED <<linked, native, validatorVars>>

Next ==
    \/ InitializeSdk
    \/ Identify
    \/ Logout
    \/ Flush
    \/ TrackEvent
    \/ TrackContentEvent
    \/ TrackCustomEvent
    \/ TrackAdRevenueEvent
    \/ NativeResolves
    \/ NativeRejects
    \/ Resume

Spec == Init /\ [][Next]_vars

\* ------------------------------------------------ properties of the validator
\* ^[0-9]+(,[0-9]+)*$ as an automaton: inToken says a digit has just been read.
RECURSIVE MatchesFrom(_, _, _)
MatchesFrom(s, i, inToken) ==
    IF i > Len(s) THEN inToken
    ELSE IF s[i] \in {"0", "1"} THEN MatchesFrom(s, i + 1, TRUE)
    ELSE IF s[i] = "," THEN inToken /\ MatchesFrom(s, i + 1, FALSE)
    ELSE FALSE

IsNormalizedIdentifier(s) == MatchesFrom(s, 1, FALSE)

Chars(s) == {s[i] : i \in 1..Len(s)}

\* C1: a string is accepted exactly when it matches ^[0-9]+(,[0-9]+)*$, and an
\* accepted string is returned unchanged.
C1_StringAcceptedIffNormalized ==
    (vIn.type = "string" /\ vOut # Unset) =>
        /\ vOut.ok <=> IsNormalizedIdentifier(vIn.str)
        /\ vOut.ok => vOut.value = vIn.str

C1_Witness ==
    /\ vIn = StringInput(<<"0", ",", "1">>)
    /\ vOut = Returned(<<"0", ",", "1">>)

\* The rules a string can break, in the order the diagnostics are ranked:
\* the position of a kind in RuleOrder is its rank.
RuleOrder ==
    <<"INVALID_TTAPPID_EMPTY", "INVALID_TTAPPID_SPACES",
      "INVALID_TTAPPID_FULLWIDTH_COMMA", "INVALID_TTAPPID_TRAILING_COMMA",
      "INVALID_TTAPPID_CONSECUTIVE_COMMAS", "INVALID_TTAPPID_FORMAT">>

Breaks(x, rank) ==
    IF x.type = "absent" THEN rank = 1
    ELSE LET s == x.str IN
        CASE rank = 1 -> Len(s) = 0
          [] rank = 2 -> " " \in Chars(s)
          [] rank = 3 -> "FW" \in Chars(s)
          [] rank = 4 -> Len(s) > 0 /\ (s[1] = "," \/ s[Len(s)] = ",")
          [] rank = 5 -> \E i \in 1..(Len(s) - 1) : <<s[i], s[i + 1]>> = <<",", ",">>
          [] rank = 6 -> Chars(s) \ {"0", "1", ","} # {}

BrokenRules(x) == {rank \in 1..6 : Breaks(x, rank)}

FirstBroken(x) == CHOOSE r \in BrokenRules(x) : \A q \in BrokenRules(x) : r <= q

\* C2: a rejected string (or absent value) gets one diagnostic, the kind of the
\* first rule it breaks in the order EMPTY, SPACES, FULLWIDTH_COMMA,
\* TRAILING_COMMA, CONSECUTIVE_COMMAS, FORMAT.
C2_FirstFailingCheckDecides ==
    (vIn.type \in {"string", "absent"} /\ vOut # Unset /\ ~vOut.ok) =>
        /\ vOut.error \in ValidationErrors
        /\ BrokenRules(vIn) # {}
        /\ vOut.error.kind = RuleOrder[FirstBroken(vIn)]

C2_Witness ==
    /\ vIn = StringInput(<<",", ",", "a">>)
    /\ BrokenRules(vIn) = {4, 5, 6}
    /\ vOut = Thrown(TRAILING_COMMA)

IsDigitToken(t) == Len(t) > 0 /\ Chars(t) \subseteq {"0", "1"}

\* C3: an array of non-empty all-digit tokens is accepted and gives the same
\* string as the tokens joined with ',' give; that string read back token by
\* token is the array as given (a single token comes back with no comma,
\* duplicates and leading zeros stay).
C3_ArrayEqualsJoinedString ==
    (/\ vIn.type = "array"
     /\ Len(vIn.toks) > 0
     /\ \A i \in 1..Len(vIn.toks) : IsDigitToken(vIn.toks[i])
     /\ vOut # Unset) =>
        /\ vOut.ok
        /\ Split(vOut.value, ",", <<>>) = vIn.toks
        /\ Len(vIn.toks) = 1 => vOut.value = vIn.toks[1]
        /\ vJoined # Unset => vJoined = vOut

C3_Witness ==
    /\ vIn = ArrayInput(<< <<"0", "1">>, <<"1">> >>)
    /\ vOut = Returned(<<"0", "1", ",", "1">>)
    /\ vJoined = vOut

\* C4: validating a returned value again returns it again.
C4_Idempotent ==
    vAgain # Unset => (vOut.ok /\ vAgain = vOut)

C4_Witness ==
    /\ vIn.type = "array"
    /\ Len(vIn.toks) = 2
    /\ vAgain # Unset
    /\ vAgain.ok

Offending(toks) == {i \in 1..Len(toks) : ~IsDigitToken(toks[i])}

FirstOffending(toks) ==
    CHOOSE i \in Offending(toks) : \A j \in Offending(toks) : i <= j

\* C5: an array with no element fails with EMPTY; otherwise the first element
\* that is empty or holds a non-digit decides: EMPTY if it is empty, FORMAT if
\* not (never another kind), and with no such element the array is accepted.
\* "", [] and [""] fail with EMPTY.
C5_ArrayDiagnostics ==
    /\ (vIn.type = "array" /\ vOut # Unset) =>
        IF Len(vIn.toks) = 0 THEN vOut = Thrown(EMPTY)
        ELSE IF Offending(vIn.toks) = {} THEN vOut.ok
        ELSE IF vIn.toks[FirstOffending(vIn.toks)] = <<>> THEN vOut = Thrown(EMPTY)
        ELSE vOut = Thrown(FORMAT)
    /\ (/\ vIn \in {StringInput(<<>>), ArrayInput(<<>>), ArrayInput(<< <<>> >>)}
        /\ vOut # Unset) => vOut = Thrown(EMPTY)

C5_Witness ==
    /\ vIn = ArrayInput(<< <<"1">>, <<",">>, <<>> >>)
    /\ vOut = Thrown(FORMAT)

\* --------------------------------------------------- properties of the facade
\* An identifier the validator is specified to accept.
IsValidIdentifier(x) ==
    CASE x.type = "string" -> IsNormalizedIdentifier(x.str)
      [] x.type = "array" ->
            Len(x.toks) > 0 /\ \A i \in 1..Len(x.toks) : IsDigitToken(x.toks[i])
      [] OTHER -> FALSE

InitCalls == {c \in 1..Len(calls) : calls[c].op = "initializeSdk"}
ValidInitCalls == {c \in InitCalls : IsValidIdentifier(calls[c].args[2])}
InitInvocations == {n \in 1..Len(native) : native[n].method = "initializeSdk"}

\* The calls that made native invocation n.
Owners(n) == {c \in 1..Len(calls) : calls[c].native = n}

\* C6 as stated: the native initializeSdk invocations are as many as the
\* initializeSdk calls with a valid identifier, and a call with a rejected
\* identifier made no native invocation.
C6_InvocationsEqualValidCalls ==
    /\ Cardinality(InitInvocations) = Cardinality(ValidInitCalls)
    /\ \A c \in InitCalls \ ValidInitCalls : calls[c].native = 0

\* C6 amended: a call with a rejected identifier makes no native invocation and
\* is rejected with a validation error; every native invocation was made by
\* exactly one call; with the native module linked the native initializeSdk
\* invocations are as many as the initializeSdk calls with a valid identifier,
\* and without it there is no native invocation at all.
C6_RejectedIdentifierNeverReachesNative ==
    /\ \A c \in InitCalls \ ValidInitCalls :
        /\ calls[c].native = 0
        /\ calls[c].promise.state = "rejected"
        /\ calls[c].promise.value \in ValidationErrors
    /\ \A n \in 1..Len(native) : Cardinality(Owners(n)) = 1
    /\ \A n \in InitInvocations : Owners(n) \subseteq ValidInitCalls
    /\ linked => Cardinality(InitInvocations) = Cardinality(ValidInitCalls)
    /\ ~linked => native = <<>>

C6_Witness ==
    /\ linked
    /\ Len(calls) = 2
    /\ calls[1].op = "initializeSdk"
    /\ calls[1].args[2] = StringInput(<<"1", ",", " ", "0">>)
    /\ calls[1].promise = Rejected(SPACES)
    /\ calls[2].op = "initializeSdk"
    /\ calls[2].args[2] = StringInput(<<"0", ",", "1">>)
    /\ Len(native) = 1

\* C7 as stated: without the native module every call, whatever its input, is
\* rejected with the not-linked error, which is no validation error, and no
\* call throws to its caller.
C7_UnlinkedAlwaysNotLinked ==
    /\ LINKING_ERROR \notin ValidationErrors
    /\ ~linked => \A c \in 1..Len(calls) : calls[c].promise = Rejected(LINKING_ERROR)

\* C7 amended: without the native module no call throws to its caller and
\* every call is rejected: an initializeSdk whose identifier the validator
\* rejects with that validation error, every other call with the not-linked
\* error, which differs from every validation error in kind and message.
C7_UnlinkedRejects ==
    /\ \A e \in ValidationErrors :
        LINKING_ERROR.kind # e.kind /\ LINKING_ERROR.message # e.message
    /\ ~linked => \A c \in 1..Len(calls) :
        /\ calls[c].promise.state = "rejected"
        /\ IF c \in InitCalls \ ValidInitCalls
           THEN calls[c].promise.value \in ValidationErrors
           ELSE calls[c].promise.value = LINKING_ERROR

C7_Witness ==
    /\ ~linked
    /\ Len(calls) = 2
    /\ calls[1].op = "initializeSdk"
    /\ 1 \in ValidInitCalls
    /\ calls[1].promise = Rejected(LINKING_ERROR)
    /\ calls[2].op = "trackEvent"
    /\ calls[2].promise = Rejected(LINKING_ERROR)

\* C8: a native initializeSdk invocation has four arguments: the caller's app
\* identifier, a string matching ^[0-9]+(,[0-9]+)*$ that holds the caller's
\* tokens, the caller's access token, and the caller's debug flag or false if
\* the caller gave none.
C8_InitializeArguments ==
    \A n \in InitInvocations : \A c \in Owners(n) :
        LET sent == native[n].args
            given == calls[c].args
        IN  /\ Len(sent) = 4
            /\ sent[1] = given[1]
            /\ sent[2].type = "string"
            /\ IsNormalizedIdentifier(sent[2].str)
            /\ given[2].type = "string" => sent[2] = given[2]
            /\ given[2].type = "array" => Split(sent[2].str, ",", <<>>) = given[2].toks
            /\ sent[3] = given[3]
            /\ sent[4] = (IF given[4] = Absent THEN Bool(FALSE) ELSE given[4])

C8_Witness ==
    \E n \in InitInvocations : \E c \in Owners(n) :
        /\ calls[c].args[2] = ArrayInput(<< <<"0">>, <<"1">> >>)
        /\ calls[c].args[4] = Absent
        /\ native[n].args[2] = StringInput(<<"0", ",", "1">>)
        /\ native[n].args[4] = Bool(FALSE)

\* What a pass-through with defaulting sends for an optional argument.
Defaulted(given) == IF given = Absent THEN Null ELSE given

\* C9: trackEvent and trackAdRevenueEvent send the caller's event name, event
\* id, properties and ad revenue payload unchanged, and null only in place of
\* an event id or properties the caller did not give.
C9_PassThroughWithDefaults ==
    \A n \in 1..Len(native) : \A c \in Owners(n) :
        LET sent == native[n].args
            given == calls[c].args
        IN  /\ calls[c].op = "trackEvent" =>
                sent = <<given[1], Defaulted(given[2]), Defaulted(given[3])>>
            /\ calls[c].op = "trackAdRevenueEvent" =>
                sent = <<given[1], Defaulted(given[2])>>

\* C10: a call that reached the native module settles only as the native
\* promise settled: resolved with the same token or rejected with the same
\* error.
C10_TransparentRelay ==
    \A c \in 1..Len(calls) :
        (calls[c].native > 0 /\ calls[c].promise # Pending) =>
            /\ native[calls[c].native].promise # Pending
            /\ calls[c].promise.state = native[calls[c].native].promise.state
            /\ calls[c].promise.value = native[calls[c].native].promise.value

C10_Witness ==
    /\ Len(calls) = 2
    /\ calls[1].op = "flush"
    /\ calls[1].promise = Rejected(CHOOSE f \in NativeFailures : TRUE)
    /\ calls[2].op = "identify"
    /\ calls[2].promise = Resolved(CHOOSE t \in Tokens : TRUE)

\* C11: a native invocation is made only by the step that makes a facade call,
\* one at most per call, also after a rejection: no step adds more native
\* invocations than facade calls, so the native invocations never outnumber
\* the facade calls, and an invocation once made stays as it was made.
C11_NeverRetries ==
    [][/\ Len(native') - Len(native) <= Len(calls') - Len(calls)
       /\ Len(native') <= Len(calls')
       /\ \A n \in 1..Len(native) :
            /\ native'[n].method = native[n].method
            /\ native'[n].args = native[n].args
       /\ \A c \in 1..Len(calls) : calls'[c].native = calls[c].native]_vars

C11_Witness ==
    /\ Len(calls) = 2
    /\ calls[1].op = "flush"
    /\ calls[1].promise.state = "rejected"
    /\ calls[1].promise.value \in NativeFailures
    /\ calls[2].op = "flush"
    /\ Len(native) = 2

\* The calls that made a native invocation.
Dispatched == {c \in 1..Len(calls) : calls[c].native > 0}

\* C12: the native invocations are in the order of the facade calls that made
\* them, each the method of its operation, whether or not earlier invocations
\* have settled; and no call waits for its invocation: a call without one has
\* failed locally.
C12_CallOrderPreserved ==
    /\ \A c1, c2 \in Dispatched :
        c1 < c2 <=> calls[c1].native < calls[c2].native
    /\ \A c \in Dispatched :
        /\ calls[c].native <= Len(native)
        /\ native[calls[c].native].method = calls[c].op
    /\ \A c \in 1..Len(calls) :
        calls[c].native = 0 => calls[c].promise.state = "rejected"
    /\ Len(native) = Cardinality(Dispatched)

C12_Witness ==
    /\ Len(calls) = 2
    /\ calls[1].op = "trackEvent"
    /\ calls[1].promise = Pending
    /\ native[1].promise = Pending
    /\ calls[2].op = "flush"
    /\ Len(native) = 2
    /\ native[1].method = "trackEvent"
    /\ native[2].method = "flush"

OtherCalls == (1..Len(calls)) \ InitCalls

\* Two calls with the same operation and arguments are treated alike: both
\* fail locally with the same error, or both reach the native module with
\* the same arguments.
SameCallSameTreatment ==
    \A c1, c2 \in 1..Len(calls) :
        (calls[c1].op = calls[c2].op /\ calls[c1].args = calls[c2].args) =>
            /\ calls[c1].native = 0 <=> calls[c2].native = 0
            /\ calls[c1].native = 0 => calls[c1].promise = calls[c2].promise
            /\ calls[c1].native > 0 =>
                native[calls[c1].native].args = native[calls[c2].native].args

\* C13 as stated: identify, logout, flush and the track operations always reach
\* the native module and never fail locally, whatever came before, and equal
\* calls are treated alike.
C13_AlwaysForwarded ==
    /\ \A c \in OtherCalls : calls[c].native > 0
    /\ SameCallSameTreatment

\* C13 amended: with the native module linked, identify, logout, flush and the
\* track operations always reach it and never fail locally, whatever came
\* before (no initializeSdk, a failed one, a logout); without it they are all
\* rejected with the not-linked error; either way equal calls are treated
\* alike, whatever the earlier calls.
C13_NoSessionState ==
    /\ linked => \A c \in OtherCalls :
        /\ calls[c].native > 0
        /\ native[calls[c].native].method = calls[c].op
    /\ ~linked => \A c \in OtherCalls :
        /\ calls[c].native = 0
        /\ calls[c].promise = Rejected(LINKING_ERROR)
    /\ SameCallSameTreatment

C13_Witness ==
    /\ linked
    /\ Len(calls) = 2
    /\ calls[1].op = "initializeSdk"
    /\ calls[1].promise.state = "rejected"
    /\ calls[1].promise.value \in ValidationErrors
    /\ calls[2].op = "identify"
    /\ calls[2].native = 1
    /\ native[1].method = "identify"

====
